---- MODULE Spec2Model ----
(* TransactionSubscription of tasit-action (TasitAction.js): the listener     *)
(* lifecycle of a submitted write, run on the JavaScript event loop.  Every   *)
(* action is one run-to-completion task: a public call, or the continuation   *)
(* of an await, or a timer, or a listener invoked by the provider.            *)
EXTENDS Integers, Sequences, FiniteSets, TLC

\* ---------------------------------------------------------------- bounds
\* on("confirmation") calls that get past the hasListener() guard, per subscription
MaxRegs == 2
\* blocks the chain advances by
MaxBlocks == 2
\* write calls a Contract dispatches, each creating a TransactionSubscription
MaxSubs == 1
\* EventSubscriptions a Contract hands out
MaxEventSubs == 2
MaxEntries == 2

\* ---------------------------------------------------------------- state
VARIABLES
  txPromise,      \* #txPromise: "pending" | "resolved" | "rejected", per subscription
  tx,             \* #tx: NoTx, or the hash of the resolved transaction
  listeners,      \* #listeners: sequence of [eventName, listenerFunction]
  errorListener,  \* #errorListener: None or a failure handler
  pc,             \* position of every #addListener call: per subscription, per call
  receipt,        \* what the call's getTransactionReceipt returned: "none" | "null" | "found"
  timers,         \* the armed setTimeout callbacks, in the order they were armed
  events,         \* provider: the registered [tag, listener] pairs, in order
  confirmations,  \* chain: confirmations of each hash's receipt, 0 = no receipt
  blockRuns,      \* block listeners invoked and awaiting their receipt re-query
  last,           \* what the last task did: its outcome, errors, callbacks, provider calls
  contract,       \* the Contract: #provider, #contract and the methods attached to it
  eventSubs,      \* the EventSubscriptions handed out: #eventNames of each
  waits           \* position of the waitForMessage call, per subscription

\* the Contract side of the state
cvars == <<contract, eventSubs, waits>>

vars == <<txPromise, tx, listeners, errorListener, pc, receipt, timers, events,
          confirmations, blockRuns, last, cvars>>

Subs == DOMAIN txPromise
Regs == 1..MaxRegs
None == "none"
NoTx == 0
\* eventName: "block"; the transaction hashes are 1, 2, ...
BlockTag == 0
Hash(s) == s
Handlers == {"f1", "f2"}
Triggers == {"confirmation", "failed", "other"}
Aliases == {"removeListener", "removeAllListeners", "off", "unsubscribe"}

Fn(s, r) == [sub |-> s, reg |-> r]

Quiet(op, s) ==
  [op |-> op, sub |-> s, out |-> None, pre |-> 0, handled |-> {}, unhandled |-> {},
   invoked |-> {}, calls |-> <<>>, trigger |-> None, alias |-> None, reg |-> 0,
   handler |-> None, created |-> 0, method |-> None, names |-> {}]

\* the fields of a TransactionSubscription and the provider state they refer to
TypeOK ==
  /\ txPromise \in [Subs -> {"pending", "resolved", "rejected"}]
  /\ tx \in [Subs -> {NoTx} \cup {Hash(s) : s \in Subs}]
  /\ \A s \in Subs : \A i \in 1..Len(listeners[s]) :
       /\ listeners[s][i].eventName \in {BlockTag, Hash(s)}
       /\ listeners[s][i].listenerFunction \in {Fn(s, r) : r \in Regs}
  /\ errorListener \in [Subs -> Handlers \cup {None}]
  /\ pc \in [Subs -> [Regs -> {"unused", "awaitTx", "awaitReceipt", "done", "failed"}]]
  /\ receipt \in [Subs -> [Regs -> {"none", "null", "found"}]]
  /\ \A i \in 1..Len(timers) : timers[i] \in {Fn(s, r) : s \in Subs, r \in Regs}
  /\ \A i \in 1..Len(events) :
       events[i].tag \in {BlockTag} \cup DOMAIN confirmations
  /\ confirmations \in [{Hash(s) : s \in Subs} -> 0..MaxBlocks]
  /\ blockRuns \in [Subs -> [Regs -> 0..MaxBlocks]]

\* ---------------------------------------------------------------- helpers
hasListener(s) == Len(listeners[s]) > 0

\* mutant: the provider call is removeAllListeners(eventName)
ProviderRemoveListener_AllOfTag(evs, tag, fn) ==
  SelectSeq(evs, LAMBDA e : e.tag # tag)

\* the provider's removeListener(eventName, listener): drops the first match
RECURSIVE ProviderRemoveListener(_, _, _)
ProviderRemoveListener(evs, tag, fn) ==
  IF evs = <<>> THEN <<>>
  ELSE IF Head(evs).tag = tag /\ Head(evs).listener = fn THEN Tail(evs)
  ELSE <<Head(evs)>> \o ProviderRemoveListener(Tail(evs), tag, fn)

ProviderOn(evs, tag, fn) == Append(evs, [tag |-> tag, listener |-> fn])

Registered(s) == {i \in 1..Len(events) : events[i].listener.sub = s}

\* mutant: #emitErrorEvent calls this.#errorListener without testing it
emitErrorEvent_Unguarded(s, kind) == {kind}

\* #emitErrorEvent: the errors handed to the failure handler
emitErrorEvent(s, kind) == IF errorListener[s] # None THEN {kind} ELSE {}

\* what escapes when the failure handler itself throws
HandlerEscape(s, hThrows) ==
  IF errorListener[s] # None /\ hThrows THEN {"HandlerError"} ELSE {}

\* ---------------------------------------------------------------- Utils
\* the 40 of /^0x[0-9A-Fa-f]{40}$/
AddressLen == 40

\* address candidates: whether a string, whether it starts with 0x, how many
\* characters follow and whether all of them are hexadecimal digits
GoodAddress == [str |-> TRUE, prefix |-> TRUE, len |-> AddressLen, hex |-> TRUE]
Addresses ==
  { GoodAddress,
    [str |-> TRUE, prefix |-> FALSE, len |-> 7, hex |-> FALSE],
    [str |-> TRUE, prefix |-> TRUE, len |-> AddressLen - 1, hex |-> TRUE],
    [str |-> TRUE, prefix |-> TRUE, len |-> AddressLen, hex |-> FALSE],
    [str |-> FALSE, prefix |-> FALSE, len |-> 0, hex |-> FALSE] }

isAddress(a) == a.str /\ a.prefix /\ a.hex /\ a.len = AddressLen

\* descriptor candidates: an array of entries, null, or an object that is no array
TheABI ==
  [kind |-> "array",
   entries |-> << [type |-> "constructor", name |-> None, stateMutability |-> "nonpayable"],
                  [type |-> "function", name |-> "value", stateMutability |-> "view"],
                  [type |-> "function", name |-> "setValue", stateMutability |-> "nonpayable"],
                  [type |-> "function", name |-> "double", stateMutability |-> "pure"],
                  [type |-> "event", name |-> "ValueChanged", stateMutability |-> None],
                  [type |-> "event", name |-> "Reset", stateMutability |-> None] >>]
ABIs == {TheABI, [kind |-> "null", entries |-> <<>>], [kind |-> "object", entries |-> <<>>]}

isABI(abi) == abi.kind # "null" /\ abi.kind = "array"

\* wallet candidates by their _ethersType; None is undefined
Wallets == {None, "Signer", "Provider"}

isEthersJsSigner(w) == w # None /\ w = "Signer"

\* ---------------------------------------------------------------- Contract binding
NoContract ==
  [state |-> "none", provider |-> FALSE, address |-> None, abi |-> None,
   signer |-> None, methods |-> <<>>, submitted |-> 0]

\* mutant: the earlier test, !f.constant, on entries that carry no `constant`
isWrite_NotConstant(f) == TRUE

isWrite(f) == f.stateMutability # "view"

\* #attachWriteFunction / #attachReadFunction: this[f.name] = ...
Attach(m, f) ==
  [n \in DOMAIN m \cup {f.name} |->
     IF n = f.name THEN (IF isWrite(f) THEN "write" ELSE "read") ELSE m[n]]

\* #addFunctionsToContract: the entries of type function, in order
RECURSIVE addFunctionsToContract(_, _)
addFunctionsToContract(m, entries) ==
  IF entries = <<>> THEN m
  ELSE addFunctionsToContract(
         IF Head(entries).type = "function" THEN Attach(m, Head(entries)) ELSE m,
         Tail(entries))

\* whether #initializeContract throws
InitializeThrows(address, abi, wallet) ==
  \/ ~isAddress(address) \/ ~isABI(abi)
  \/ (wallet # None /\ ~isEthersJsSigner(wallet))

\* mutant: the contract is rebuilt on the provider and the wallet is not connected
initializeContract_NoConnect(c, address, abi, wallet) ==
  [c EXCEPT !.state = "bound",
            !.address = address,
            !.abi = abi,
            !.signer = None,
            !.methods = addFunctionsToContract(c.methods, abi.entries)]

\* #initializeContract(address, abi, wallet) on contract c, when it does not throw
initializeContract(c, address, abi, wallet) ==
  [c EXCEPT !.state = "bound",
            !.address = address,
            !.abi = abi,
            !.signer = IF wallet # None THEN wallet ELSE None,
            !.methods = addFunctionsToContract(c.methods, abi.entries)]

\* a TransactionSubscription as its constructor leaves it
InitOf(S) ==
  /\ txPromise = [s \in S |-> "pending"]
  /\ tx = [s \in S |-> NoTx]
  /\ listeners = [s \in S |-> <<>>]
  /\ errorListener = [s \in S |-> None]
  /\ pc = [s \in S |-> [r \in Regs |-> "unused"]]
  /\ receipt = [s \in S |-> [r \in Regs |-> "none"]]
  /\ timers = <<>>
  /\ events = <<>>
  /\ confirmations = [h \in {Hash(s) : s \in S} |-> 0]
  /\ blockRuns = [s \in S |-> [r \in Regs |-> 0]]
  /\ waits = [s \in S |-> "idle"]
  /\ last = Quiet("init", 0)

\* a Contract bound with a signer has dispatched one write call: its
\* TransactionSubscription is constructed
Init ==
  /\ InitOf({1})
  /\ contract = [initializeContract([NoContract EXCEPT !.provider = TRUE],
                                    GoodAddress, TheABI, "Signer")
                   EXCEPT !.submitted = 1]
  /\ eventSubs = <<>>

\* ---------------------------------------------------------------- on
\* the promise on() hands its caller: on is async, so its throws are rejections;
\* #addListener is neither awaited nor returned, so nothing it throws gets here
OnOutcome(trigger, isFn) ==
  IF trigger \notin {"confirmation", "failed"} THEN "InvalidTrigger"
  ELSE IF ~isFn THEN "NoFunction"
  ELSE "ok"

\* the guard of #addListener
AlreadyListening(s) == hasListener(s)

FreeRegs(s) == {r \in Regs : pc[s][r] = "unused"}
NextReg(s) == CHOOSE r \in FreeRegs(s) : \A q \in FreeRegs(s) : r <= q

\* mutant: a failure handler already stored is kept
addErrorListener_KeepFirst(s, h) ==
  IF errorListener[s] = None THEN [errorListener EXCEPT ![s] = h] ELSE errorListener

\* #addErrorListener(callback)
addErrorListener(s, h) == [errorListener EXCEPT ![s] = h]

\* on(trigger, callback), up to the first await of #addListener
On(s, trigger, isFn, h) ==
  LET out == OnOutcome(trigger, isFn)
      toAdd == out = "ok" /\ trigger = "confirmation"
      starts == toAdd /\ ~AlreadyListening(s)
  IN
  /\ starts => FreeRegs(s) # {}
  /\ errorListener' = IF out = "ok" /\ trigger = "failed"
                      THEN addErrorListener(s, h)
                      ELSE errorListener
  /\ pc' = IF starts THEN [pc EXCEPT ![s][NextReg(s)] = "awaitTx"] ELSE pc
  /\ last' = [Quiet("on", s) EXCEPT
                !.out = out,
                !.pre = Len(listeners[s]),
                !.trigger = trigger,
                !.handler = IF out = "ok" /\ trigger = "failed" THEN h ELSE None,
                !.unhandled = IF toAdd /\ AlreadyListening(s)
                              THEN {"AlreadyListening"} ELSE {}]
  /\ UNCHANGED cvars
  /\ UNCHANGED <<txPromise, tx, listeners, receipt, timers, events,
                 confirmations, blockRuns>>

\* ---------------------------------------------------------------- the pending handle
ResolveTx(s) ==
  /\ txPromise[s] = "pending"
  /\ txPromise' = [txPromise EXCEPT ![s] = "resolved"]
  /\ last' = Quiet("resolveTx", s)
  /\ UNCHANGED cvars
  /\ UNCHANGED <<tx, listeners, errorListener, pc, receipt, timers, events,
                 confirmations, blockRuns>>

RejectTx(s) ==
  /\ txPromise[s] = "pending"
  /\ txPromise' = [txPromise EXCEPT ![s] = "rejected"]
  /\ last' = Quiet("rejectTx", s)
  /\ UNCHANGED cvars
  /\ UNCHANGED <<tx, listeners, errorListener, pc, receipt, timers, events,
                 confirmations, blockRuns>>

\* ---------------------------------------------------------------- #addListener
\* mutant: #addListener goes on without awaiting the pending handle
TxSettled_NoAwait(s) == TRUE

\* await this.#txPromise has a value to continue with
TxSettled(s) == txPromise[s] # "pending"

\* mutant: the rejection is swallowed and #addListener goes on
TxRejected_Swallowed(s) == FALSE

\* await this.#txPromise throws
TxRejected(s) == txPromise[s] = "rejected"

\* the continuation of `await this.#txPromise`: stores #tx and asks for the receipt;
\* a rejected handle rejects #addListener's own, unobserved, promise
AddListenerAfterTx(s, r) ==
  /\ pc[s][r] = "awaitTx"
  /\ TxSettled(s)
  /\ IF TxRejected(s)
     THEN /\ pc' = [pc EXCEPT ![s][r] = "failed"]
          /\ last' = [Quiet("addListenerAfterTx", s) EXCEPT !.unhandled = {"TxRejected"}]
          /\ UNCHANGED <<tx, receipt>>
     ELSE /\ pc' = [pc EXCEPT ![s][r] = "awaitReceipt"]
          /\ tx' = [tx EXCEPT ![s] = Hash(s)]
          /\ receipt' = [receipt EXCEPT ![s][r] =
                           IF confirmations[Hash(s)] > 0 THEN "found" ELSE "null"]
          /\ last' = Quiet("addListenerAfterTx", s)
  /\ UNCHANGED cvars
  /\ UNCHANGED <<txPromise, listeners, errorListener, timers, events,
                 confirmations, blockRuns>>

\* mutant: the branch on alreadyMined is inverted
EventName_Inverted(alreadyMined, hash) == IF alreadyMined THEN hash ELSE BlockTag

\* eventName of the pushed listener
EventName(alreadyMined, hash) == IF alreadyMined THEN BlockTag ELSE hash

\* the continuation of `await getTransactionReceipt`: push, provider.on, setTimeout
AddListenerAfterReceipt(s, r) ==
  LET alreadyMined == receipt[s][r] = "found"
      pushed == Append(listeners[s],
                       [eventName |-> EventName(alreadyMined, tx[s]),
                        listenerFunction |-> Fn(s, r)])
      top == pushed[Len(pushed)]
  IN
  /\ pc[s][r] = "awaitReceipt"
  /\ pc' = [pc EXCEPT ![s][r] = "done"]
  /\ listeners' = [listeners EXCEPT ![s] = pushed]
  /\ events' = ProviderOn(events, top.eventName, top.listenerFunction)
  /\ timers' = Append(timers, Fn(s, r))
  /\ last' = [Quiet("addListenerAfterReceipt", s) EXCEPT
                !.pre = Len(listeners[s]),
                !.calls = <<[fn |-> "on", tag |-> top.eventName,
                             listener |-> top.listenerFunction]>>]
  /\ UNCHANGED cvars
  /\ UNCHANGED <<txPromise, tx, errorListener, receipt, confirmations, blockRuns>>

\* ---------------------------------------------------------------- removeListener
\* mutant: removeListener() deregisters from the provider and keeps the record
RemoveListenerListeners_Kept(s) == listeners[s]

\* this.#listeners after removeListener(): pop
RemoveListenerListeners(s) ==
  IF hasListener(s) THEN SubSeq(listeners[s], 1, Len(listeners[s]) - 1)
  ELSE listeners[s]

\* the provider calls removeListener() makes
RemoveListenerCalls(s) ==
  IF hasListener(s)
  THEN LET top == listeners[s][Len(listeners[s])]
       IN <<[fn |-> "removeListener", tag |-> top.eventName,
             listener |-> top.listenerFunction]>>
  ELSE <<>>

\* mutant: removeListener() pops the record and forgets the provider
RemoveListenerEvents_Forgotten(s) == events

\* the provider's registrations after removeListener()
RemoveListenerEvents(s) ==
  IF RemoveListenerCalls(s) = <<>> THEN events
  ELSE LET c == RemoveListenerCalls(s)[1]
       IN ProviderRemoveListener(events, c.tag, c.listener)

\* removeListener(), and removeAllListeners(), off(), unsubscribe(), which call it
RemoveListener(s, alias) ==
  /\ listeners' = [listeners EXCEPT ![s] = RemoveListenerListeners(s)]
  /\ events' = RemoveListenerEvents(s)
  /\ last' = [Quiet("removeListener", s) EXCEPT
                !.out = "ok",
                !.alias = alias,
                !.pre = Len(listeners[s]),
                !.calls = RemoveListenerCalls(s)]
  /\ UNCHANGED cvars
  /\ UNCHANGED <<txPromise, tx, errorListener, pc, receipt, timers, confirmations,
                 blockRuns>>

\* the setTimeout callback of call r, this.#timeout after its listener was attached;
\* every timer has the same delay, so they expire in the order they were armed
TimerFire(s, r, hThrows) ==
  /\ timers # <<>>
  /\ Head(timers) = Fn(s, r)
  /\ timers' = Tail(timers)
  /\ listeners' = [listeners EXCEPT ![s] = RemoveListenerListeners(s)]
  /\ events' = RemoveListenerEvents(s)
  /\ last' = [Quiet("timeout", s) EXCEPT
                !.pre = Len(listeners[s]),
                !.reg = r,
                !.calls = RemoveListenerCalls(s),
                !.handled = emitErrorEvent(s, "Timeout"),
                !.unhandled = HandlerEscape(s, hThrows)]
  /\ UNCHANGED cvars
  /\ UNCHANGED <<txPromise, tx, errorListener, pc, receipt, confirmations,
                 blockRuns>>

\* ---------------------------------------------------------------- listeners
\* mutant: emitterFunction awaits the callback outside any try/catch
EmitterEscape_NoCatch(s, throws, hThrows) ==
  IF throws THEN {"CallbackError"} ELSE {}

\* what escapes emitterFunction when the callback throws: the try/catch hands the
\* error to #emitErrorEvent, so only a throwing failure handler gets out
EmitterEscape(s, throws, hThrows) ==
  IF throws THEN HandlerEscape(s, hThrows) ELSE {}

\* emitterFunction(receipt) of call r, reached through the listener under `via`
emitterFunction(s, r, via, conf, throws, hThrows) ==
  [Quiet("listener", s) EXCEPT
     !.reg = r,
     !.invoked = {[reg |-> r, via |-> via, confirmations |-> conf, throws |-> throws]},
     !.handled = IF throws THEN emitErrorEvent(s, "CallbackFailure") ELSE {},
     !.unhandled = EmitterEscape(s, throws, hThrows)]

\* the provider emits a transaction's hash, with its receipt, to one listener
\* registered under it
EmitTx(i, throws, hThrows) ==
  LET e == events[i] IN
  /\ i \in 1..Len(events)
  /\ e.tag # BlockTag
  /\ confirmations[e.tag] > 0
  /\ last' = emitterFunction(e.listener.sub, e.listener.reg, e.tag,
                             confirmations[e.tag], throws, hThrows)
  /\ UNCHANGED cvars
  /\ UNCHANGED <<txPromise, tx, listeners, errorListener, pc, receipt, timers,
                 events, confirmations, blockRuns>>

\* the chain advances by a block that includes the transactions M; the provider
\* emits "block" and every listener registered under it starts its receipt query
NewBlock(M) ==
  /\ \A h \in DOMAIN confirmations : confirmations[h] < MaxBlocks
  /\ \A h \in M : confirmations[h] = 0
  /\ confirmations' = [h \in DOMAIN confirmations |->
                         IF confirmations[h] > 0 \/ h \in M
                         THEN confirmations[h] + 1 ELSE 0]
  /\ blockRuns' = [s \in Subs |-> [r \in Regs |->
                     blockRuns[s][r] +
                       Cardinality({i \in 1..Len(events) :
                                      /\ events[i].tag = BlockTag
                                      /\ events[i].listener = Fn(s, r)})]]
  /\ last' = Quiet("newBlock", 0)
  /\ UNCHANGED cvars
  /\ UNCHANGED <<txPromise, tx, listeners, errorListener, pc, receipt, timers,
                 events>>

\* the block listener of call r continues with the re-queried receipt
BlockListener(s, r, throws, hThrows) ==
  LET conf == confirmations[tx[s]] IN
  /\ blockRuns[s][r] > 0
  /\ blockRuns' = [blockRuns EXCEPT ![s][r] = @ - 1]
  /\ last' = IF conf > 0
             THEN emitterFunction(s, r, BlockTag, conf, throws, hThrows)
             ELSE [Quiet("listener", s) EXCEPT !.reg = r, !.unhandled = {"TypeError"}]
  /\ UNCHANGED cvars
  /\ UNCHANGED <<txPromise, tx, listeners, errorListener, pc, receipt, timers,
                 events, confirmations>>

\* ---------------------------------------------------------------- Contract
\* new Contract(address, abi, wallet): #getDefaultProvider first, then
\* #initializeContract, which validates
Construct(address, abi, wallet) ==
  LET fresh == [NoContract EXCEPT !.provider = TRUE]
      throws == InitializeThrows(address, abi, wallet)
  IN
  /\ contract.state \in {"none", "failed"}
  /\ contract' = IF throws THEN [fresh EXCEPT !.state = "failed"]
                  ELSE initializeContract(fresh, address, abi, wallet)
  /\ last' = [Quiet("construct", 0) EXCEPT
                !.out = IF throws THEN "InvalidArgument" ELSE "ok",
                !.calls = <<[fn |-> "getDefaultProvider"]>>]
  /\ UNCHANGED <<txPromise, tx, listeners, errorListener, pc, receipt, timers, events,
                 confirmations, blockRuns, eventSubs, waits>>

\* setWallet(wallet)
SetWallet(wallet) ==
  LET throws == \/ ~isEthersJsSigner(wallet)
                \/ InitializeThrows(contract.address, contract.abi, wallet)
  IN
  /\ contract.state = "bound"
  /\ contract' = IF throws THEN contract
                  ELSE initializeContract(contract, contract.address, contract.abi, wallet)
  /\ last' = [Quiet("setWallet", 0) EXCEPT
                !.out = IF throws THEN "InvalidArgument" ELSE "ok"]
  /\ UNCHANGED <<txPromise, tx, listeners, errorListener, pc, receipt, timers, events,
                 confirmations, blockRuns, eventSubs, waits>>

\* removeWallet()
RemoveWallet ==
  LET throws == InitializeThrows(contract.address, contract.abi, None) IN
  /\ contract.state = "bound"
  /\ contract' = IF throws THEN contract
                  ELSE initializeContract(contract, contract.address, contract.abi, None)
  /\ last' = [Quiet("removeWallet", 0) EXCEPT
                !.out = IF throws THEN "InvalidArgument" ELSE "ok"]
  /\ UNCHANGED <<txPromise, tx, listeners, errorListener, pc, receipt, timers, events,
                 confirmations, blockRuns, eventSubs, waits>>

\* mutant: the write method submits without looking at the signer
HasSigner_Unchecked(c) == TRUE

\* the guard of a write method
HasSigner(c) == isEthersJsSigner(c.signer)

\* a method attached by #attachReadFunction: awaits the call and returns its value
CallRead(name) ==
  /\ contract.state = "bound"
  /\ name \in DOMAIN contract.methods
  /\ contract.methods[name] = "read"
  /\ last' = [Quiet("read", 0) EXCEPT
                !.out = "value",
                !.method = name,
                !.calls = <<[fn |-> "call", name |-> name]>>]
  /\ UNCHANGED <<txPromise, tx, listeners, errorListener, pc, receipt, timers, events,
                 confirmations, blockRuns, contract, eventSubs, waits>>

\* a method attached by #attachWriteFunction: throws without a signer, else
\* submits the call and wraps its promise in a new TransactionSubscription
CallWrite(name) ==
  LET s == Cardinality(Subs) + 1 IN
  /\ contract.state = "bound"
  /\ name \in DOMAIN contract.methods
  /\ contract.methods[name] = "write"
  /\ IF ~HasSigner(contract)
     THEN /\ last' = [Quiet("write", 0) EXCEPT !.out = "MissingSigner", !.method = name]
          /\ UNCHANGED <<txPromise, tx, listeners, errorListener, pc, receipt,
                         confirmations, blockRuns, contract, waits>>
     ELSE /\ Cardinality(Subs) < MaxSubs
          /\ contract' = [contract EXCEPT !.submitted = @ + 1]
          /\ txPromise' = txPromise @@ (s :> "pending")
          /\ tx' = tx @@ (s :> NoTx)
          /\ listeners' = listeners @@ (s :> <<>>)
          /\ errorListener' = errorListener @@ (s :> None)
          /\ pc' = pc @@ (s :> [r \in Regs |-> "unused"])
          /\ receipt' = receipt @@ (s :> [r \in Regs |-> "none"])
          /\ confirmations' = confirmations @@ (Hash(s) :> 0)
          /\ blockRuns' = blockRuns @@ (s :> [r \in Regs |-> 0])
          /\ waits' = waits @@ (s :> "idle")
          /\ last' = [Quiet("write", 0) EXCEPT
                        !.out = "subscription",
                        !.method = name,
                        !.created = s,
                        !.calls = <<[fn |-> "submit", name |-> name]>>]
  /\ UNCHANGED <<timers, events, eventSubs>>

\* mutant: the name is looked up among all the entries of the descriptor
EventsOf_AnyEntry(abi) == {abi.entries[i].name : i \in 1..Len(abi.entries)}

\* the names of interface.events
EventsOf(abi) ==
  {abi.entries[i].name : i \in {j \in 1..Len(abi.entries) : abi.entries[j].type = "event"}}

EventNameInputs == {"ValueChanged", "Reset", "NoSuch", "value"}

\* subscribe(eventNames)
Subscribe(names) ==
  LET unknown == \E n \in names : n \notin EventsOf(contract.abi) IN
  /\ contract.state = "bound"
  /\ ~unknown => Len(eventSubs) < MaxEventSubs
  /\ eventSubs' = IF unknown THEN eventSubs ELSE Append(eventSubs, names)
  /\ last' = [Quiet("subscribe", 0) EXCEPT
                !.out = IF unknown THEN "UnknownEvent" ELSE "eventSubscription",
                !.names = names,
                !.created = IF unknown THEN 0 ELSE Len(eventSubs) + 1]
  /\ UNCHANGED <<txPromise, tx, listeners, errorListener, pc, receipt, timers, events,
                 confirmations, blockRuns, contract, waits>>

\* EventSubscription.on(eventName, callback)
EventOn(i, name) ==
  /\ i \in 1..Len(eventSubs)
  /\ last' = [Quiet("eventOn", i) EXCEPT
                !.out = IF name \notin eventSubs[i] THEN "NotSubscribed" ELSE "ok",
                !.names = {name}]
  /\ UNCHANGED <<txPromise, tx, listeners, errorListener, pc, receipt, timers, events,
                 confirmations, blockRuns, contract, eventSubs, waits>>

\* ---------------------------------------------------------------- waitForMessage
\* mutant: waitForMessage returns without awaiting provider.waitForTransaction
Included_NoWait(s) == TRUE

\* provider.waitForTransaction(tx.hash) has a receipt to resolve with
Included(s) == confirmations[Hash(s)] > 0

\* waitForMessage() up to `await this.#txPromise`
WaitCall(s) ==
  /\ waits[s] = "idle"
  /\ waits' = [waits EXCEPT ![s] = "awaitTx"]
  /\ last' = Quiet("waitForMessage", s)
  /\ UNCHANGED <<txPromise, tx, listeners, errorListener, pc, receipt, timers, events,
                 confirmations, blockRuns, contract, eventSubs>>

\* the continuation of `await this.#txPromise`: a rejected handle rejects the
\* caller's promise, a resolved one starts provider.waitForTransaction(tx.hash)
WaitAfterTx(s) ==
  /\ waits[s] = "awaitTx"
  /\ TxSettled(s)
  /\ IF txPromise[s] = "rejected"
     THEN /\ waits' = [waits EXCEPT ![s] = "failed"]
          /\ last' = [Quiet("waitAfterTx", s) EXCEPT !.out = "TxRejected"]
     ELSE /\ waits' = [waits EXCEPT ![s] = "awaitInclusion"]
          /\ last' = [Quiet("waitAfterTx", s) EXCEPT
                        !.calls = <<[fn |-> "waitForTransaction", tag |-> Hash(s)]>>]
  /\ UNCHANGED <<txPromise, tx, listeners, errorListener, pc, receipt, timers, events,
                 confirmations, blockRuns, contract, eventSubs>>

\* the continuation of `await this.#provider.waitForTransaction(tx.hash)`
WaitAfterInclusion(s) ==
  /\ waits[s] = "awaitInclusion"
  /\ Included(s)
  /\ waits' = [waits EXCEPT ![s] = "done"]
  /\ last' = [Quiet("waitAfterInclusion", s) EXCEPT !.out = "ok"]
  /\ UNCHANGED <<txPromise, tx, listeners, errorListener, pc, receipt, timers, events,
                 confirmations, blockRuns, contract, eventSubs>>

Next ==
  \/ \E s \in Subs, t \in Triggers, isFn \in BOOLEAN, h \in Handlers : On(s, t, isFn, h)
  \/ \E s \in Subs : ResolveTx(s)
  \/ \E s \in Subs : RejectTx(s)
  \/ \E s \in Subs, r \in Regs : AddListenerAfterTx(s, r)
  \/ \E s \in Subs, r \in Regs : AddListenerAfterReceipt(s, r)
  \/ \E s \in Subs, a \in Aliases : RemoveListener(s, a)
  \/ \E s \in Subs, r \in Regs, hThrows \in BOOLEAN : TimerFire(s, r, hThrows)
  \/ \E i \in 1..Len(events), throws \in BOOLEAN, hThrows \in BOOLEAN :
       EmitTx(i, throws, hThrows)
  \/ \E M \in SUBSET DOMAIN confirmations : NewBlock(M)
  \/ \E s \in Subs, r \in Regs, throws \in BOOLEAN, hThrows \in BOOLEAN :
       BlockListener(s, r, throws, hThrows)

Spec == Init /\ [][Next]_vars

\* the Contract from before its construction, with the subscriptions its write
\* calls create; each subscription gets one on("confirmation") call here, the
\* lifecycle of repeated registrations being Spec's
InitContract ==
  /\ InitOf({})
  /\ contract = NoContract
  /\ eventSubs = <<>>

NextContract ==
  \/ \E a \in Addresses, abi \in ABIs, w \in Wallets : Construct(a, abi, w)
  \/ \E w \in Wallets : SetWallet(w)
  \/ RemoveWallet
  \/ \E n \in DOMAIN contract.methods : CallRead(n)
  \/ \E n \in DOMAIN contract.methods : CallWrite(n)
  \/ \E s \in Subs, t \in Triggers, isFn \in BOOLEAN, h \in Handlers :
       /\ t = "confirmation" => FreeRegs(s) = Regs
       /\ On(s, t, isFn, h)
  \/ \E s \in Subs : ResolveTx(s)
  \/ \E s \in Subs, r \in Regs : AddListenerAfterTx(s, r)
  \/ \E s \in Subs, r \in Regs : AddListenerAfterReceipt(s, r)
  \/ \E s \in Subs, a \in Aliases : RemoveListener(s, a)

SpecContract == InitContract /\ [][NextContract]_vars

\* the Contract and the EventSubscriptions it hands out
NextEvents ==
  \/ \E a \in Addresses, abi \in ABIs, w \in Wallets : Construct(a, abi, w)
  \/ \E w \in Wallets : SetWallet(w)
  \/ RemoveWallet
  \/ \E names \in SUBSET EventNameInputs : Subscribe(names)
  \/ \E i \in 1..Len(eventSubs), n \in EventNameInputs : EventOn(i, n)

SpecEvents == InitContract /\ [][NextEvents]_vars

\* a subscription whose owner waits for inclusion while listeners come and go
NextWait ==
  \/ \E s \in Subs : WaitCall(s)
  \/ \E s \in Subs : WaitAfterTx(s)
  \/ \E s \in Subs : WaitAfterInclusion(s)
  \/ \E s \in Subs, t \in Triggers, isFn \in BOOLEAN, h \in Handlers :
       /\ t = "confirmation" => FreeRegs(s) = Regs
       /\ On(s, t, isFn, h)
  \/ \E s \in Subs : ResolveTx(s)
  \/ \E s \in Subs : RejectTx(s)
  \/ \E s \in Subs, r \in Regs : AddListenerAfterTx(s, r)
  \/ \E s \in Subs, r \in Regs : AddListenerAfterReceipt(s, r)
  \/ \E s \in Subs, a \in Aliases : RemoveListener(s, a)
  \/ \E M \in SUBSET DOMAIN confirmations : NewBlock(M)

SpecWait == Init /\ [][NextWait]_vars

\* two write calls of one Contract: two TransactionSubscriptions on its provider
InitTwo ==
  /\ InitOf({1, 2})
  /\ contract = [initializeContract([NoContract EXCEPT !.provider = TRUE],
                                    GoodAddress, TheABI, "Signer")
                   EXCEPT !.submitted = 2]
  /\ eventSubs = <<>>

\* each subscription registers one callback; the callbacks do not throw
NextTwo ==
  \/ \E s \in Subs, h \in Handlers :
       /\ FreeRegs(s) = Regs
       /\ On(s, "confirmation", TRUE, h)
  \/ \E s \in Subs : ResolveTx(s)
  \/ \E s \in Subs, r \in Regs : AddListenerAfterTx(s, r)
  \/ \E s \in Subs, r \in Regs : AddListenerAfterReceipt(s, r)
  \/ \E s \in Subs : RemoveListener(s, "removeListener")
  \/ \E s \in Subs, r \in Regs : TimerFire(s, r, FALSE)
  \/ \E i \in 1..Len(events) : EmitTx(i, FALSE, FALSE)
  \/ \E M \in SUBSET DOMAIN confirmations : NewBlock(M)
  \/ \E s \in Subs, r \in Regs : BlockListener(s, r, FALSE, FALSE)

SpecTwo == InitTwo /\ [][NextTwo]_vars

\* a setTimeout callback that is due is run by the event loop
TimerStep == \E s \in Subs, r \in Regs, hThrows \in BOOLEAN : TimerFire(s, r, hThrows)

\* registrations, removals and blocks in any order, no event delivered to a listener
NextFair ==
  \/ \E s \in Subs, t \in {"confirmation", "failed"}, h \in Handlers : On(s, t, TRUE, h)
  \/ \E s \in Subs : ResolveTx(s)
  \/ \E s \in Subs : RejectTx(s)
  \/ \E s \in Subs, r \in Regs : AddListenerAfterTx(s, r)
  \/ \E s \in Subs, r \in Regs : AddListenerAfterReceipt(s, r)
  \/ \E s \in Subs : RemoveListener(s, "removeListener")
  \/ \E M \in SUBSET DOMAIN confirmations : NewBlock(M)
  \/ TimerStep

SpecFair == Init /\ [][NextFair]_vars /\ WF_vars(TimerStep)

\* descriptors for the binder: up to MaxEntries entries, each a function with a
\* name and a stateMutability, an event, or the constructor; two function
\* entries may carry the same name (overloads)
FunctionNames == {"get", "put"}
Mutabilities == {"view", "pure", "nonpayable"}
BindEntries ==
  [type : {"function"}, name : FunctionNames, stateMutability : Mutabilities]
  \cup [type : {"event"}, name : {"Changed"}, stateMutability : {None}]
  \cup [type : {"constructor"}, name : {None}, stateMutability : {"nonpayable"}]
Descriptors ==
  {[kind |-> "array", entries |-> es] :
     es \in UNION {[1..n -> BindEntries] : n \in 0..MaxEntries}}

\* a Contract built on any of the descriptors, then rebound
NextBind ==
  \/ \E abi \in Descriptors, wallet \in {None, "Signer"} :
       Construct(GoodAddress, abi, wallet)
  \/ \E wallet \in Wallets : SetWallet(wallet)
  \/ RemoveWallet

SpecBind == InitContract /\ [][NextBind]_vars

\* ================================================================ claims
InFlight(s) == {r \in Regs : pc[s][r] \in {"awaitTx", "awaitReceipt"}}

\* the subscription's listener record, as the provider registrations it stands for
Recorded(s) ==
  [i \in 1..Len(listeners[s]) |->
     [tag |-> listeners[s][i].eventName, listener |-> listeners[s][i].listenerFunction]]

IsOf(s, e) == e.listener.sub = s
RegisteredSeq(s) == SelectSeq(events, LAMBDA e : IsOf(s, e))

\* C1: in every reachable state a subscription holds at most one confirmation
\* listener: its listener sequence has length at most 1 and at most one of its
\* listener functions is registered on the provider.
C1_AtMostOneListener ==
  \A s \in Subs : Len(listeners[s]) <= 1 /\ Cardinality(Registered(s)) <= 1

\* C2: an on("confirmation", cb) call with a callable cb, made while hasListener()
\* is true, reports the AlreadyListening error to its caller and leaves the
\* listener record and the provider's registrations unchanged.
C2_SecondOnReportsAlreadyListening ==
  [][(/\ last'.op = "on"
      /\ last'.trigger = "confirmation"
      /\ last'.out # "NoFunction"
      /\ hasListener(last'.sub))
     => (/\ last'.out = "AlreadyListening"
         /\ UNCHANGED <<listeners, events>>)]_vars

\* C3: a second on("confirmation") issued while the first call has not yet
\* attached its listener fails: it never becomes a second registration in
\* progress beside the first, so only the first call's listener is registered.
C3_SecondCallInARowFails ==
  \A s \in Subs :
    /\ Cardinality(InFlight(s)) <= 1
    /\ (InFlight(s) # {} => ~hasListener(s))

\* C4: when the timeout expires on an attached listener with no finalization
\* observed (no receipt exists), the listener is deregistered from the provider,
\* the failure handler, if present, gets the Timeout error, and hasListener()
\* is false.
C4_TimeoutRetiresListener ==
  (/\ last.op = "timeout"
   /\ last.pre > 0
   /\ confirmations[Hash(last.sub)] = 0)
  => (/\ last.calls # <<>>
      /\ (errorListener[last.sub] # None => "Timeout" \in last.handled)
      /\ ~hasListener(last.sub))

\* C5: when the confirmation callback throws, under the hash-keyed or the
\* block-keyed listener, its error does not escape the listener (the only error
\* that can is one thrown by the failure handler itself), and the registered
\* failure handler is handed a CallbackFailure.
C5_CallbackErrorGoesToFailureHandler ==
  \A m \in last.invoked :
    m.throws =>
      /\ last.unhandled \subseteq {"HandlerError"}
      /\ (last.unhandled # {} => errorListener[last.sub] # None)
      /\ (errorListener[last.sub] # None => last.handled = {"CallbackFailure"})

C5_Witness ==
  /\ \E m \in last.invoked : m.throws /\ m.via = BlockTag
  /\ last.handled = {"CallbackFailure"}
  /\ last.unhandled = {}

\* C6: a registration whose receipt lookup found a receipt is registered under
\* the block key only, any other under its hash only, each once; the callback of
\* a block-keyed listener is started by every block event, runs with the
\* re-queried receipt's confirmation count, and is never run by a hash event.
C6_BranchOnReceiptLookup ==
  /\ \A i \in 1..Len(events) :
       LET e == events[i] IN
       /\ e.tag = IF receipt[e.listener.sub][e.listener.reg] = "found"
                  THEN BlockTag ELSE Hash(e.listener.sub)
       /\ \A j \in 1..Len(events) : events[j].listener = e.listener => j = i
  /\ \A m \in last.invoked :
       /\ m.via = BlockTag <=> receipt[last.sub][m.reg] = "found"
       /\ m.via = BlockTag => m.confirmations = confirmations[Hash(last.sub)]
  /\ last.op = "newBlock" =>
       \A i \in 1..Len(events) :
         events[i].tag = BlockTag =>
           blockRuns[events[i].listener.sub][events[i].listener.reg] > 0

C6_Witness ==
  /\ \E m \in last.invoked : m.via = BlockTag /\ m.confirmations = MaxBlocks
  /\ \E i \in 1..Len(events) : events[i].tag = BlockTag

\* C7: a confirmation callback runs only once the pending handle has resolved
\* and #tx is set, and under the block key only once the registration's own
\* lookup has seen a receipt for the hash.
C7_CallbackAfterResolution ==
  \A m \in last.invoked :
    /\ txPromise[last.sub] = "resolved"
    /\ tx[last.sub] = Hash(last.sub)
    /\ m.via = BlockTag =>
         receipt[last.sub][m.reg] = "found" /\ confirmations[Hash(last.sub)] > 0

C7_Witness ==
  /\ \E m \in last.invoked : m.via = Hash(last.sub) /\ ~m.throws
  /\ txPromise[last.sub] = "resolved"

\* C8: right after removeListener() (or an alias) or a timeout expiry, the
\* provider holds no listener function of the subscription.
C8_NoListenerLeftAfterCancellation ==
  last.op \in {"removeListener", "timeout"} => Registered(last.sub) = {}

\* C9: hasListener() is true exactly when a listener of the subscription is
\* registered on the provider, and the listener record and the provider's
\* registrations for the subscription are the same pairs in the same order.
C9_RecordMatchesProvider ==
  \A s \in Subs :
    /\ hasListener(s) <=> Registered(s) # {}
    /\ Recorded(s) = RegisteredSeq(s)

C9_Witness ==
  /\ last.op = "removeListener"
  /\ last.pre = 1
  /\ \E r \in Regs : pc[last.sub][r] = "done" /\ receipt[last.sub][r] = "found"
  /\ ~hasListener(last.sub)

\* C10: removeListener() and its aliases are idempotent: right after one call a
\* second call would change neither the listener record nor the provider; with
\* no listener attached the call makes no provider call; with one attached it
\* deregisters that listener under the key it was registered with.
C10_RemoveIsIdempotent ==
  last.op = "removeListener" =>
    /\ RemoveListenerListeners(last.sub) = listeners[last.sub]
    /\ RemoveListenerEvents(last.sub) = events
    /\ (last.pre = 0 <=> last.calls = <<>>)
    /\ \A i \in 1..Len(last.calls) :
         last.calls[i].tag =
           IF receipt[last.sub][last.calls[i].listener.reg] = "found"
           THEN BlockTag ELSE Hash(last.sub)

\* C11: on("failed", cb) stores cb as the failure handler, replacing any earlier
\* one, and changes nothing else: the listener record, the provider's
\* registrations (so hasListener() and the AlreadyListening guard), the calls in
\* progress and the timers are as before, and nothing is thrown.
C11_FailedOnlyStoresHandler ==
  [][(/\ last'.op = "on"
      /\ last'.trigger = "failed"
      /\ last'.out = "ok")
     => (/\ errorListener' = [errorListener EXCEPT ![last'.sub] = last'.handler]
         /\ last'.handler \in Handlers
         /\ last'.unhandled = {}
         /\ \A s \in Subs : AlreadyListening(s)' = AlreadyListening(s)
         /\ UNCHANGED <<txPromise, tx, listeners, pc, receipt, timers, events,
                         confirmations, blockRuns>>)]_vars

C11_Witness ==
  /\ last.op = "on"
  /\ last.trigger = "failed"
  /\ last.handler = "f2"
  /\ errorListener[last.sub] = "f2"
  /\ hasListener(last.sub)
  /\ timers # <<>>

\* the subscription side of the state that a Contract call must not touch
subVars == <<txPromise, tx, listeners, errorListener, pc, receipt, timers, events,
             confirmations, blockRuns, waits>>

FunctionEntries == {TheABI.entries[i] : i \in {j \in 1..Len(TheABI.entries) :
                                                  TheABI.entries[j].type = "function"}}

\* C12: every function entry that is not a view is bound as a write method; a
\* write method called with no signer bound throws MissingSigner, submits nothing
\* and creates no subscription; called with a signer bound it submits the call
\* and returns a new subscription; a subscription has no listener before an
\* on("confirmation") call was made on it.
C12_WriteNeedsSigner ==
  /\ [](contract.state = "bound" =>
          \A f \in FunctionEntries :
            f.stateMutability # "view" => contract.methods[f.name] = "write")
  /\ [](\A s \in Subs : hasListener(s) => \E r \in Regs : pc[s][r] # "unused")
  /\ [][last'.op = "write" =>
         IF isEthersJsSigner(contract.signer)
         THEN /\ last'.out = "subscription"
              /\ contract'.submitted = contract.submitted + 1
              /\ last'.created \notin Subs
              /\ Subs' = Subs \cup {last'.created}
              /\ \A s \in Subs' \ Subs : ~hasListener(s)'
              /\ \A r \in Regs : pc'[last'.created][r] = "unused"
              /\ txPromise'[last'.created] = "pending"
         ELSE /\ last'.out = "MissingSigner"
              /\ last'.calls = <<>>
              /\ UNCHANGED <<contract, subVars>>]_vars

C12_Witness ==
  /\ last.op = "write"
  /\ last.out = "subscription"
  /\ last.method = "setValue"
  /\ last.created = MaxSubs

\* C13: every view entry is bound as a read method; it can be called whether
\* or not a signer is bound, returns the call's value, and leaves the Contract
\* and every subscription as they were, creating none.
C13_ReadNeedsNoSigner ==
  /\ [](contract.state = "bound" =>
          \A f \in FunctionEntries :
            f.stateMutability = "view" =>
              contract.methods[f.name] = "read" /\ ENABLED CallRead(f.name))
  /\ [][last'.op = "read" =>
         /\ last'.out = "value"
         /\ last'.created = 0
         /\ Subs' = Subs
         /\ UNCHANGED <<contract, subVars>>]_vars

C13_Witness ==
  /\ last.op = "read"
  /\ last.method = "value"
  /\ contract.signer = None
  /\ contract.submitted > 0

\* C14: setWallet and removeWallet keep the address, the descriptor and the set
\* of bound method names and leave every subscription as it was; a setWallet that
\* raises InvalidArgument leaves the Contract as it was, one that succeeds binds
\* a signer, and removeWallet binds none.
C14_RebindKeepsSubscriptions ==
  [][last'.op \in {"setWallet", "removeWallet"} =>
       /\ contract'.address = contract.address
       /\ contract'.address = GoodAddress
       /\ contract'.abi = contract.abi
       /\ DOMAIN contract'.methods = DOMAIN contract.methods
       /\ contract'.methods = contract.methods
       /\ UNCHANGED subVars
       /\ last'.out \in {"ok", "InvalidArgument"}
       /\ last'.out = "InvalidArgument" => UNCHANGED contract
       /\ last'.op = "removeWallet" => last'.out = "ok" /\ contract'.signer = None
       /\ (last'.op = "setWallet" /\ last'.out = "ok") =>
            isEthersJsSigner(contract'.signer)]_vars

C14_Witness ==
  /\ last.op = "removeWallet"
  /\ contract.signer = None
  /\ \E s \in Subs : hasListener(s) /\ errorListener[s] # None
  /\ timers # <<>>

\* C15: a construction that fails with InvalidArgument has not touched the
\* transport (no provider was built or configured) and has bound no method.
C15_InvalidConstructionTouchesNothing ==
  (last.op = "construct" /\ last.out = "InvalidArgument") =>
    /\ ~contract.provider
    /\ last.calls = <<>>
    /\ contract.methods = <<>>

\* the event entries of the descriptor the Contract is built on
DescriptorEvents == {"ValueChanged", "Reset"}

\* C17: subscribe(eventNames) throws UnknownEvent exactly when some requested
\* name is not an event entry of the descriptor, and then creates nothing;
\* otherwise it returns a new EventSubscription holding the requested names.
\* That subscription's on(eventName, callback) throws NotSubscribed exactly when
\* eventName was not requested; in either case it registers nothing on the
\* provider and changes no state.
C17_EventSubscriptionChecksNames ==
  /\ [][last'.op = "subscribe" =>
         /\ last'.out = (IF last'.names \subseteq DescriptorEvents
                          THEN "eventSubscription" ELSE "UnknownEvent")
         /\ eventSubs' = (IF last'.names \subseteq DescriptorEvents
                          THEN Append(eventSubs, last'.names) ELSE eventSubs)
         /\ UNCHANGED <<contract, subVars>>]_vars
  /\ [][last'.op = "eventOn" =>
         /\ last'.sub \in 1..Len(eventSubs)
         /\ last'.out = (IF last'.names \subseteq eventSubs[last'.sub]
                          THEN "ok" ELSE "NotSubscribed")
         /\ last'.calls = <<>>
         /\ UNCHANGED <<contract, eventSubs, subVars>>]_vars

C17_Witness ==
  /\ last.op = "eventOn"
  /\ last.out = "ok"
  /\ Len(eventSubs) = MaxEventSubs
  /\ eventSubs[last.sub] = {"ValueChanged", "Reset"}
  /\ last.names = {"Reset"}

\* C18: a timer whose registration was the only one made on the subscription
\* and whose listener was retired by removeListener() before it expires hands no
\* Timeout error to the failure handler.
C18_NoTimeoutAfterRemoval ==
  (/\ last.op = "timeout"
   /\ last.pre = 0
   /\ \A r \in Regs \ {last.reg} : pc[last.sub][r] = "unused")
  => "Timeout" \notin last.handled

\* C19: a timer that expires while exactly one listener is attached never
\* deregisters the listener of a later registration, one whose own timer has
\* not expired yet.
C19_TimerSparesLaterListener ==
  (/\ last.op = "timeout"
   /\ last.pre = 1)
  => \A i \in 1..Len(last.calls) :
       \/ last.calls[i].listener = Fn(last.sub, last.reg)
       \/ \A k \in 1..Len(timers) : timers[k] # last.calls[i].listener

\* C16: waitForMessage() completes only once the transaction promise has
\* resolved and, after that, the provider has reported the transaction's hash
\* included (it asks the provider only after the resolution); none of its steps
\* changes hasListener(), the listener record, the failure handler or the
\* provider's registrations.
C16_WaitOrderAndNoListener ==
  /\ [](\A s \in Subs :
         /\ waits[s] \in {"awaitInclusion", "done"} => txPromise[s] = "resolved"
         /\ waits[s] = "done" => confirmations[Hash(s)] > 0)
  /\ [][\A s \in Subs :
          (waits'[s] = "done" /\ waits[s] # "done") =>
             /\ waits[s] = "awaitInclusion"
             /\ confirmations[Hash(s)] > 0]_vars
  /\ [][last'.op \in {"waitForMessage", "waitAfterTx", "waitAfterInclusion"} =>
         /\ \A s \in Subs : hasListener(s)' = hasListener(s)
         /\ \A i \in 1..Len(last'.calls) : last'.calls[i].fn = "waitForTransaction"
         /\ UNCHANGED <<txPromise, tx, listeners, errorListener, pc, receipt, timers,
                         events, confirmations, blockRuns, contract, eventSubs>>]_vars

C16_Witness ==
  /\ last.op = "waitAfterInclusion"
  /\ waits[last.sub] = "done"
  /\ hasListener(last.sub)
  /\ errorListener[last.sub] # None

\* C20: with two subscriptions on one provider, a removeListener() or a timeout
\* of one makes provider calls on its own listener functions only and leaves the
\* other's listener record and provider registrations as they were, also when
\* both are registered under "block"; and a listener run under a transaction's
\* hash is a listener of the subscription of that transaction.
C20_SubscriptionsDoNotInterfere ==
  /\ [][last'.op \in {"removeListener", "timeout"} =>
         /\ \A i \in 1..Len(last'.calls) : last'.calls[i].listener.sub = last'.sub
         /\ \A s \in Subs \ {last'.sub} :
              /\ listeners'[s] = listeners[s]
              /\ RegisteredSeq(s)' = RegisteredSeq(s)]_vars
  /\ [](\A m \in last.invoked : m.via # BlockTag => m.via = Hash(last.sub))
  /\ [](\A i \in 1..Len(events) :
          events[i].tag # BlockTag => events[i].tag = Hash(events[i].listener.sub))

C20_Witness ==
  /\ last.op = "timeout"
  /\ last.sub = 1
  /\ last.pre = 1
  /\ hasListener(2)
  /\ \E i \in 1..Len(events) : events[i].tag = BlockTag /\ events[i].listener.sub = 2
  /\ \E c \in {last.calls[i] : i \in 1..Len(last.calls)} : c.tag = BlockTag

\* the timers of subscription s that have not expired yet
PendingTimers(s) == {k \in 1..Len(timers) : timers[k].sub = s}

\* C21: every attached listener has a pending timer behind it, and, timers
\* firing, a subscription that has a listener attached reaches a state where
\* hasListener() is false and the provider holds no listener of it, whether or
\* not removeListener() is called or an event is delivered, for every number
\* of registrations made.
C21_ListenerEventuallyRetired ==
  /\ [](Len(listeners[1]) <= Cardinality(PendingTimers(1)))
  /\ (hasListener(1) ~> (~hasListener(1) /\ Registered(1) = {}))

C21_Witness ==
  /\ last.op = "timeout"
  /\ last.sub = 1
  /\ last.pre = 1
  /\ \A r \in Regs : pc[1][r] = "done"
  /\ ~hasListener(1)
  /\ Registered(1) = {}
  /\ timers = <<>>

\* the last step raised a Timeout or a CallbackFailure error
ErrorArose ==
  \/ last.op = "timeout"
  \/ last.op = "listener" /\ \E m \in last.invoked : m.throws

\* C22: when a Timeout or CallbackFailure error arises on a subscription with no
\* failure handler, no handler is called and nothing escapes the step; and
\* what the step leaves in the listener record and on the provider does not
\* depend on a failure handler being registered: a timeout pops the last
\* listener and deregisters it, a failing callback changes neither.
C22_ErrorDroppedWithoutHandler ==
  /\ []((ErrorArose /\ errorListener[last.sub] = None) =>
          last.handled = {} /\ last.unhandled = {})
  /\ [][last'.op = "timeout" =>
         LET s == last'.sub
             n == Len(listeners[s])
         IN /\ errorListener' = errorListener
            /\ listeners' = [listeners EXCEPT ![s] =
                               IF n > 0 THEN SubSeq(listeners[s], 1, n - 1) ELSE <<>>]
            /\ events' = IF n > 0
                         THEN ProviderRemoveListener(events, listeners[s][n].eventName,
                                                     listeners[s][n].listenerFunction)
                         ELSE events]_vars
  /\ [][(last'.op = "listener" /\ \E m \in last'.invoked : m.throws) =>
         UNCHANGED <<listeners, events, errorListener, timers, pc>>]_vars

C22_Witness ==
  /\ last.op = "listener"
  /\ \E m \in last.invoked : m.throws /\ m.via = BlockTag
  /\ errorListener[last.sub] = None
  /\ hasListener(last.sub)

\* C23: while a subscription's transaction promise is pending, and for good once
\* it has rejected, no on("confirmation") call of the subscription gets past
\* its await: no listener is in the record or on the provider, no timer is
\* armed, hasListener() is false, and no step of the subscription calls the
\* failure handler; a rejected promise stays rejected.
C23_NothingWithoutResolution ==
  /\ [](\A s \in Subs :
         txPromise[s] # "resolved" =>
           /\ ~hasListener(s)
           /\ Registered(s) = {}
           /\ PendingTimers(s) = {}
           /\ \A r \in Regs : pc[s][r] \in {"unused", "awaitTx", "failed"}
           /\ last.sub = s => last.handled = {} /\ last.invoked = {})
  /\ [][\A s \in Subs : txPromise[s] = "rejected" => txPromise'[s] = "rejected"]_vars

C23_Witness ==
  /\ last.op = "addListenerAfterTx"
  /\ txPromise[last.sub] = "rejected"
  /\ errorListener[last.sub] # None
  /\ \A r \in Regs : pc[last.sub][r] = "failed"
  /\ confirmations[Hash(last.sub)] > 0

\* C24: on a bound Contract the attached methods are exactly the names of the
\* descriptor's function entries, and every function entry finds under its
\* name a read method if its stateMutability is "view" and a write method
\* otherwise, after construction and after every setWallet/removeWallet.
C24_EntryBoundByItsMutability ==
  contract.state = "bound" =>
    LET es == contract.abi.entries
        fs == {i \in 1..Len(es) : es[i].type = "function"}
    IN /\ DOMAIN contract.methods = {es[i].name : i \in fs}
       /\ \A i \in fs :
            contract.methods[es[i].name] =
              (IF es[i].stateMutability = "view" THEN "read" ELSE "write")
====
